---- MODULE Spec2Model ----
(***************************************************************************)
(* cronicle: rotated, time-spaced symlink archives of a file.              *)
(*                                                                         *)
(* The model follows src/cronicle/__init__.py function by function.  The   *)
(* filesystem is the directory D = dirname(FILE) with its regular files    *)
(* and the four frequency folders below it.  A path is the sequence of its *)
(* components below D: <<name>> is D/name, <<folder, name>> is             *)
(* D/folder/name.  A file name is a sequence of characters, so that glob   *)
(* patterns are matched and not looked up.                                 *)
(*                                                                         *)
(* Time is counted in ticks, TicksPerDay of them in a day; tick 0 is       *)
(* 2023-01-01 00:00.  Birth times are those of a platform that has         *)
(* os.stat_result.st_birthtime (the one the program runs on).              *)
(***************************************************************************)
EXTENDS Integers, Sequences, FiniteSets, TLC

VARIABLES
    fs,         \* the filesystem: [links, dirs, files]
    now,        \* datetime.now(), in ticks
    config,     \* the loaded configuration: sequence of [key, value]
    pc,         \* position of the process in cronicle_cli
    idx,        \* index in FREQUENCY_FOLDER_DAYS.keys() of the for loop
    filename,   \* argument FILE, made absolute
    cfg,        \* result of find_config
    remove_opt, \* option --remove
    dry_run,    \* option --dry-run
    exitcode,   \* exit code of the process, "none" while it runs
    log,        \* records written to the logger during this run
    steps,      \* history: the calls made by the for loop of this run
    fs0,        \* history: the filesystem when this run started
    runs,       \* history: number of runs started
    prev        \* history: how and when the run before this one ended

vars == <<fs, now, config, pc, idx, filename, cfg, remove_opt, dry_run,
          exitcode, log, steps, fs0, runs, prev>>

-----------------------------------------------------------------------------
(* Bounds of the model *)

MaxRuns == 2
MaxRetention == 1
MaxInitLinks == 2
TicksPerDay == 2

-----------------------------------------------------------------------------
(* Constants of the program *)

FREQUENCY_FOLDER_DAYS ==
    [DAILY |-> 1, WEEKLY |-> 7, MONTHLY |-> 30, YEARLY |-> 365]

\* FREQUENCY_FOLDER_DAYS.keys(): a dict keeps its insertion order
FolderKeys == <<"DAILY", "WEEKLY", "MONTHLY", "YEARLY">>

Folders == DOMAIN FREQUENCY_FOLDER_DAYS

\* str.lower() on the keys of FREQUENCY_FOLDER_DAYS
lower(s) ==
    CASE s = "DAILY" -> "daily"
      [] s = "WEEKLY" -> "weekly"
      [] s = "MONTHLY" -> "monthly"
      [] s = "YEARLY" -> "yearly"
      [] OTHER -> s

None == [none |-> TRUE]

-----------------------------------------------------------------------------
(* Paths: os.path *)

dirname(p) == SubSeq(p, 1, Len(p) - 1)
basename(p) == p[Len(p)]
join(d, x) == Append(d, x)

\* fnmatch of one path component against a glob pattern ("*" only)
RECURSIVE fnmatch(_, _)
fnmatch(name, pat) ==
    IF pat = <<>> THEN name = <<>>
    ELSE IF Head(pat) = "*"
         THEN \/ fnmatch(name, Tail(pat))
              \/ name # <<>> /\ fnmatch(Tail(name), pat)
         ELSE /\ name # <<>>
              /\ Head(name) = Head(pat)
              /\ fnmatch(Tail(name), Tail(pat))

-----------------------------------------------------------------------------
(* Dates: datetime and dateutil.relativedelta *)

IsLeap(y) == (y % 4 = 0 /\ y % 100 # 0) \/ y % 400 = 0

\* calendar.monthrange(year, month)[1]
monthrange(y, m) ==
    CASE m = 2 -> IF IsLeap(y) THEN 29 ELSE 28
      [] m \in {4, 6, 9, 11} -> 30
      [] OTHER -> 31

\* the date that lies n days after the first day of month m of year y
RECURSIVE DateFrom(_, _, _)
DateFrom(y, m, n) ==
    IF n < monthrange(y, m)
    THEN [year |-> y, month |-> m, day |-> n + 1]
    ELSE IF m = 12
         THEN DateFrom(y + 1, 1, n - monthrange(y, m))
         ELSE DateFrom(y, m + 1, n - monthrange(y, m))

\* number of days from 2023-01-01 to the first day of month m of year y
RECURSIVE DaysBefore(_, _)
DaysBefore(y, m) ==
    IF y = 2023 /\ m = 1 THEN 0
    ELSE IF m = 1
         THEN DaysBefore(y - 1, 12) + monthrange(y - 1, 12)
         ELSE DaysBefore(y, m - 1) + monthrange(y, m - 1)

\* a datetime is a number of ticks; its date and its time of day
DateOf(t) == DateFrom(2023, 1, t \div TicksPerDay)
TimeOf(t) == t % TicksPerDay
Stamp(date, time) ==
    (DaysBefore(date.year, date.month) + date.day - 1) * TicksPerDay + time

\* dt + relativedelta(months=n): the day is clipped to the length of the month
AddMonths(t, n) ==
    LET d == DateOf(t)
        total == d.year * 12 + (d.month - 1) + n
        y == total \div 12
        m == (total % 12) + 1
        last == monthrange(y, m)
    IN  Stamp([year |-> y, month |-> m,
               day |-> IF d.day < last THEN d.day ELSE last], TimeOf(t))

\* the while loop of relativedelta.__init__(dt1, dt2)
RECURSIVE FitMonths(_, _, _)
FitMonths(dt1, dt2, months) ==
    IF dt1 < dt2
    THEN IF dt1 > AddMonths(dt2, months)
         THEN FitMonths(dt1, dt2, months + 1) ELSE months
    ELSE IF dt1 < AddMonths(dt2, months)
         THEN FitMonths(dt1, dt2, months - 1) ELSE months

\* relativedelta(dt1, dt2): whole years and months, then the remaining
\* days, each with the sign of dt1 - dt2
relativedelta(dt1, dt2) ==
    LET d1 == DateOf(dt1)
        d2 == DateOf(dt2)
        months == FitMonths(dt1, dt2,
                      (d1.year - d2.year) * 12 + (d1.month - d2.month))
        rest == dt1 - AddMonths(dt2, months)
        abs(x) == IF x < 0 THEN 0 - x ELSE x
        sign(x) == IF x < 0 THEN 0 - 1 ELSE 1
    IN  [years  |-> sign(months) * (abs(months) \div 12),
         months |-> sign(months) * (abs(months) % 12),
         days   |-> sign(rest) * (abs(rest) \div TicksPerDay)]

-----------------------------------------------------------------------------
(* The filesystem *)

\* the characters of the file names of the model
chars(name) ==
    CASE name = "a1" -> <<"a", "1">>
      [] name = "b1" -> <<"b", "1">>
      [] OTHER -> <<name>>

Names == {"a1", "b1"}
Patterns == {<<"*">>, <<"a", "*">>}

NoEntry == [kind |-> "none", target |-> <<>>, birth |-> 0]
RegFile == [kind |-> "file", target |-> <<>>, birth |-> 0]
Link(t, b) == [kind |-> "link", target |-> t, birth |-> b]

LinkPaths == {<<folder, name>> : folder \in Folders, name \in Names}

\* what os.lstat finds at path p
entry(f, p) ==
    IF Len(p) = 2 /\ p \in DOMAIN f.links THEN f.links[p]
    ELSE IF Len(p) = 1 /\ p[1] \in f.files THEN RegFile
    ELSE IF Len(p) = 1 /\ p[1] \in f.dirs THEN [RegFile EXCEPT !.kind = "dir"]
    ELSE NoEntry

lexists(f, p) == entry(f, p).kind # "none"
islink(f, p) == entry(f, p).kind = "link"

\* os.path.realpath: follows the links; a path that does not exist is kept
RECURSIVE realpath(_, _)
realpath(f, p) == IF islink(f, p) THEN realpath(f, entry(f, p).target) ELSE p

\* os.path.exists: follows the links
exists(f, p) == lexists(f, realpath(f, p))

\* glob that takes the entries of every folder: the pattern alone
glob_anywhere(f, folder, pattern) ==
    {x \in LinkPaths \cup {<<n>> : n \in f.files} :
        /\ lexists(f, x)
        /\ fnmatch(chars(basename(x)), pattern)}

\* glob.glob(os.path.join(folder, pattern))
glob(f, folder, pattern) ==
    {x \in LinkPaths \cup {<<n>> : n \in f.files} :
        /\ dirname(x) = folder
        /\ lexists(f, x)
        /\ fnmatch(chars(basename(x)), pattern)}

-----------------------------------------------------------------------------
(* The functions of the program.  A function that writes takes the         *)
(* filesystem f and the log lg and returns both, with raised = TRUE when   *)
(* it ends by an exception.                                                *)

Some(v) == [value |-> v]
Result(f, lg, r) == [fs |-> f, log |-> lg, raised |-> r]

\* sorted(creation_dates.items())
RECURSIVE SortedItems(_, _)
SortedItems(d, keys) ==
    IF keys = {} THEN <<>>
    ELSE LET k == CHOOSE k \in keys : \A j \in keys : k <= j
         IN  <<<<k, d[k]>>>> \o SortedItems(d, keys \ {k})

\* The possible results of get_symlinks_dates: the dict is keyed by the
\* creation date, so of the links that share a date the one glob lists last
\* is kept, and glob lists in directory order.
get_symlinks_dates(f, folder, pattern) ==
    LET found == {x \in glob(f, folder, pattern) : islink(f, x)}
        dates == {entry(f, x).birth : x \in found}
        dicts == {d \in [dates -> found] :
                     \A k \in dates : entry(f, d[k]).birth = k}
    IN  {SortedItems(d, dates) : d \in dicts}

\* The keys of the result are the same for every directory order.
delta_days(f, folder, c) ==
    LET files_dates == CHOOSE r \in get_symlinks_dates(f, folder, c.pattern) : TRUE
    IN  IF files_dates # <<>>
        THEN Some(relativedelta(now, files_dates[Len(files_dates)][1]).days)
        ELSE None

\* symlink without the test of dry_run
symlink_nodry(f, lg, fname, target, dry) ==
    LET lg1 == lg \cup {<<"INFO", "Symlinking", target>>}
        target_dir == dirname(target)
        f1 == IF exists(f, target_dir) THEN f
              ELSE [f EXCEPT !.dirs = @ \cup {basename(target_dir)}]
    IN  IF lexists(f1, target) THEN Result(f1, lg1, TRUE)
        ELSE Result([f1 EXCEPT !.links[target] = Link(fname, now)], lg1, FALSE)

\* symlink with the arguments of os.symlink exchanged
symlink_swapped(f, lg, fname, target, dry) ==
    LET lg1 == lg \cup {<<"INFO", "Symlinking", target>>}
        target_dir == dirname(target)
        f1 == IF exists(f, target_dir) THEN f
              ELSE [f EXCEPT !.dirs = @ \cup {basename(target_dir)}]
    IN  IF dry THEN Result(f, lg1, FALSE)
        ELSE IF lexists(f1, target) THEN Result(f1, lg1, TRUE)
        ELSE Result([f1 EXCEPT !.links[target] = Link(target, now)], lg1, FALSE)

symlink(f, lg, fname, target, dry) ==
    LET lg1 == lg \cup {<<"INFO", "Symlinking", target>>}
        target_dir == dirname(target)
        f1 == IF exists(f, target_dir) THEN f
              ELSE [f EXCEPT !.dirs = @ \cup {basename(target_dir)}]
    IN  IF dry THEN Result(f, lg1, FALSE)
        ELSE IF lexists(f1, target) THEN Result(f1, lg1, TRUE)
        ELSE Result([f1 EXCEPT !.links[target] = Link(fname, now)], lg1, FALSE)

\* unlink that unlinks what the link resolves to: os.unlink(realpath(link))
unlink_realpath(f, lg, link, dry) ==
    LET t == realpath(f, link)
    IN  IF dry THEN Result(f, lg \cup {<<"INFO", "Unlinking", link>>}, FALSE)
        ELSE IF Len(t) = 1 /\ t[1] \in f.files
             THEN Result([f EXCEPT !.files = @ \ {t[1]}], lg, FALSE)
        ELSE IF Len(t) = 2 /\ entry(f, t).kind \in {"file", "link"}
             THEN Result([f EXCEPT !.links[t] = NoEntry], lg, FALSE)
        ELSE Result(f, lg, TRUE)

\* os.unlink(link, dry_run): os.unlink takes one positional argument
unlink(f, lg, link, dry) ==
    IF dry THEN Result(f, lg \cup {<<"INFO", "Unlinking", link>>}, FALSE)
    ELSE Result(f, lg, TRUE)

remove(f, lg, fname, dry) ==
    IF dry THEN Result(f, lg \cup {<<"INFO", "Removing", fname>>}, FALSE)
    ELSE IF Len(fname) = 1 /\ fname[1] \in f.files
         THEN Result([f EXCEPT !.files = @ \ {fname[1]}], lg, FALSE)
    ELSE IF Len(fname) = 2 /\ entry(f, fname).kind \in {"file", "link"}
         THEN Result([f EXCEPT !.links[fname] = NoEntry], lg, FALSE)
    ELSE Result(f, lg, TRUE)

\* timed_symlink with the comparison of the gate inverted
timed_symlink_inverted(f, lg, fname, ffolder, c, dry) ==
    LET target_dir == join(dirname(fname), ffolder)
        days_elapsed == delta_days(f, target_dir, c)
        target == join(target_dir, basename(fname))
    IN  IF days_elapsed # None
           /\ days_elapsed.value > FREQUENCY_FOLDER_DAYS[ffolder]
        THEN Result(f, lg \cup {<<"INFO", "No symlink created", target_dir>>},
                    FALSE)
        ELSE IF ~lexists(f, target) THEN symlink(f, lg, fname, target, dry)
        ELSE Result(f, lg \cup {<<"ERROR", "already exists", target>>}, FALSE)

\* timed_symlink that replaces what it finds at target
timed_symlink_overwrite(f, lg, fname, ffolder, c, dry) ==
    LET target_dir == join(dirname(fname), ffolder)
        days_elapsed == delta_days(f, target_dir, c)
        target == join(target_dir, basename(fname))
    IN  IF days_elapsed # None
           /\ days_elapsed.value < FREQUENCY_FOLDER_DAYS[ffolder]
        THEN Result(f, lg \cup {<<"INFO", "No symlink created", target_dir>>},
                    FALSE)
        ELSE symlink([f EXCEPT !.links[target] = NoEntry], lg, fname, target,
                     dry)

\* timed_symlink without the gate, putting its link in place of what it finds
timed_symlink_always(f, lg, fname, ffolder, c, dry) ==
    LET target_dir == join(dirname(fname), ffolder)
        target == join(target_dir, basename(fname))
    IN  symlink([f EXCEPT !.links[target] = NoEntry], lg, fname, target, dry)

\* The record of the message 'No symlink created' carries the folder, which
\* the message itself does not name.
timed_symlink(f, lg, fname, ffolder, c, dry) ==
    LET target_dir == join(dirname(fname), ffolder)
        days_elapsed == delta_days(f, target_dir, c)
        target == join(target_dir, basename(fname))
    IN  IF days_elapsed # None
           /\ days_elapsed.value < FREQUENCY_FOLDER_DAYS[ffolder]
        THEN Result(f, lg \cup {<<"INFO", "No symlink created", target_dir>>},
                    FALSE)
        ELSE IF ~lexists(f, target) THEN symlink(f, lg, fname, target, dry)
        ELSE Result(f, lg \cup {<<"ERROR", "already exists", target>>}, FALSE)

is_symlinked(f, filepath, folders) ==
    \E folder \in folders :
        lexists(f, join(join(dirname(filepath), folder), basename(filepath)))

\* the for loop of rotate with the file removed before the link is unlinked
RECURSIVE RotateLoopRemoveFirst(_, _, _, _, _, _)
RotateLoopRemoveFirst(st, droplinks, i, others_ffolders, rm, dry) ==
    IF i > Len(droplinks) \/ st.raised THEN st
    ELSE LET link == droplinks[i]
             filepath == realpath(st.fs, link)
             r == IF rm /\ ~is_symlinked(st.fs, filepath, others_ffolders)
                  THEN remove(st.fs, st.log, filepath, dry)
                  ELSE st
             u == IF r.raised THEN r ELSE unlink(r.fs, r.log, link, dry)
         IN  RotateLoopRemoveFirst(u, droplinks, i + 1, others_ffolders, rm,
                                   dry)

\* the for loop of rotate, from the i-th of droplinks on
RECURSIVE RotateLoop(_, _, _, _, _, _)
RotateLoop(st, droplinks, i, others_ffolders, rm, dry) ==
    IF i > Len(droplinks) \/ st.raised THEN st
    ELSE LET link == droplinks[i]
             filepath == realpath(st.fs, link)
             u == unlink(st.fs, st.log, link, dry)
             r == IF ~u.raised /\ rm
                     /\ ~is_symlinked(u.fs, filepath, others_ffolders)
                  THEN remove(u.fs, u.log, filepath, dry)
                  ELSE u
         IN  RotateLoop(r, droplinks, i + 1, others_ffolders, rm, dry)

\* the possible results of rotate, one for each result of the scan
rotate(f, lg, fname, ffolder, c, rm, dry) ==
    LET others_ffolders == Folders \ {ffolder}
        target_dir == join(dirname(fname), ffolder)
        numskips == c[lower(ffolder)]
    IN  {LET n == Len(dates)
             links == [i \in 1..n |-> dates[n + 1 - i][2]]
             droplinks == SubSeq(links, numskips + 1, n)
         IN  RotateLoop(Result(f, lg, FALSE), droplinks, 1,
                        others_ffolders, rm, dry) :
         dates \in get_symlinks_dates(f, target_dir, c.pattern)}

\* the test of the for loop of cronicle_cli without the retention count
enabled_always(c, ffolder) == TRUE

\* if cfg[ffolder.lower()]
enabled(c, ffolder) == c[lower(ffolder)] # 0

DefaultConfig ==
    [daily |-> 0, weekly |-> 0, monthly |-> 0, yearly |-> 0,
     pattern |-> <<"*">>]

\* conf is the sequence of the items of the configuration, in the order of
\* cfg.keys(); an item is [key, value]
RECURSIVE find_config(_, _, _)
find_config(f, fname, conf) ==
    IF conf = <<>> THEN None
    ELSE LET key == Head(conf).key
             v == Head(conf).value
         IN  IF fname \in glob(f, dirname(fname), key)
             THEN [DefaultConfig EXCEPT !.daily = v.daily,
                       !.weekly = v.weekly, !.monthly = v.monthly,
                       !.yearly = v.yearly, !.pattern = key]
             ELSE find_config(f, fname, Tail(conf))

\* The loop of cronicle_cli over the tiers, from the i-th key on, as a
\* function of the state it starts in: the results it can end with.
RECURSIVE cronicle_loop(_, _, _, _, _, _)
cronicle_loop(st, i, fname, c, rm, dry) ==
    IF st.raised \/ i > Len(FolderKeys) THEN {st}
    ELSE IF ~enabled(c, FolderKeys[i])
         THEN cronicle_loop(st, i + 1, fname, c, rm, dry)
    ELSE LET t == timed_symlink(st.fs, st.log, fname, FolderKeys[i], c, dry)
         IN  IF t.raised THEN {t}
             ELSE UNION {cronicle_loop(r, i + 1, fname, c, rm, dry) :
                         r \in rotate(t.fs, t.log, fname, FolderKeys[i], c,
                                      rm, dry)}

-----------------------------------------------------------------------------
(* The states the program is started in *)

\* the day of the first run, 2024-02-05 00:00
Today == Stamp([year |-> 2024, month |-> 2, day |-> 5], 0)

\* time that passes before a later run, in ticks
Advance == {0, TicksPerDay}

\* retention counts: no tier, DAILY, WEEKLY or all tiers enabled
RetVectors ==
    {[daily |-> 0, weekly |-> 0, monthly |-> 0, yearly |-> 0]} \cup
    {[daily   |-> IF "DAILY" \in S THEN n ELSE 0,
      weekly  |-> IF "WEEKLY" \in S THEN n ELSE 0,
      monthly |-> IF "MONTHLY" \in S THEN n ELSE 0,
      yearly  |-> IF "YEARLY" \in S THEN n ELSE 0] :
        S \in {{"DAILY"}, {"WEEKLY"}, Folders}, n \in 1..MaxRetention}

Configs == {<<[key |-> k, value |-> v]>> : k \in Patterns, v \in RetVectors}

\* the filesystems with at most n entries, drawn from entries, at slots
FilesystemsOf(slots, entries, n, filesets) ==
    LET linkmaps ==
            UNION {{[p \in LinkPaths |-> IF p \in S THEN g[p] ELSE NoEntry] :
                       g \in [S -> entries]} :
                   S \in {S \in SUBSET slots : Cardinality(S) <= n}}
    IN  {[links |-> l,
          dirs  |-> {p[1] : p \in {q \in LinkPaths : l[q] # NoEntry}},
          files |-> fl] : l \in linkmaps, fl \in filesets}

\* Rotation: entries in the folders DAILY and WEEKLY, made today or
\* yesterday, with and without the file a1 they point to
InitFS ==
    FilesystemsOf({p \in LinkPaths : p[1] \in {"DAILY", "WEEKLY"}},
                  {RegFile} \cup {Link(<<"a1">>, Today - a) :
                                     a \in {0, TicksPerDay}},
                  MaxInitLinks, {Names, {"b1"}})

\* Time gate: one link in any folder, of these ages in days
GateAges == {0, 1, 6, 7, 29, 30, 31, 45, 364, 365, 400}

InitGateFS ==
    FilesystemsOf(LinkPaths,
                  {Link(<<"a1">>, Today - (d * TicksPerDay + t)) :
                      d \in GateAges, t \in {0, 1}},
                  1, {Names})

InitRest ==
    /\ config \in Configs
    /\ remove_opt \in BOOLEAN
    /\ dry_run \in BOOLEAN
    /\ now = Today
    /\ pc = "idle"
    /\ idx = 0
    /\ filename = <<>>
    /\ cfg = None
    /\ exitcode = "none"
    /\ log = {}
    /\ steps = <<>>
    /\ fs0 = fs
    /\ runs = 0
    /\ prev = [pc |-> "idle", filename |-> <<>>, now |-> Today,
               changed |-> FALSE]

Init == fs \in InitFS /\ InitRest

InitGate == fs \in InitGateFS /\ InitRest

-----------------------------------------------------------------------------
(* cronicle_cli *)

\* The process is started on an existing FILE (click.Path(exists=True)),
\* finds its configuration and exits with 1 when there is none.  The options
\* are those of the command line of the job and stay the same from run to run.
CliStart ==
    /\ pc \in {"idle", "done", "crashed", "exited"}
    /\ runs < MaxRuns
    /\ \E name \in fs.files, dt \in Advance :
        LET c == find_config(fs, <<name>>, config)
        IN  /\ runs = 0 => dt = 0
            /\ filename' = <<name>>
            /\ now' = now + dt
            /\ cfg' = c
            /\ pc' = IF c = None THEN "exited" ELSE "loop"
            /\ exitcode' = IF c = None THEN "1" ELSE "none"
    /\ idx' = 1
    /\ log' = {}
    /\ steps' = <<>>
    /\ fs0' = fs
    /\ runs' = runs + 1
    /\ prev' = [pc |-> pc, filename |-> filename, now |-> now,
                changed |-> fs # fs0]
    /\ UNCHANGED <<fs, config, remove_opt, dry_run>>

\* for ffolder in FREQUENCY_FOLDER_DAYS.keys(): a tier with count 0 is passed
CliSkip ==
    /\ pc = "loop"
    /\ idx <= Len(FolderKeys)
    /\ ~enabled(cfg, FolderKeys[idx])
    /\ idx' = idx + 1
    /\ UNCHANGED <<fs, now, config, pc, filename, cfg, remove_opt, dry_run,
                   exitcode, log, steps, fs0, runs, prev>>

CliTimedSymlink ==
    /\ pc = "loop"
    /\ idx <= Len(FolderKeys)
    /\ enabled(cfg, FolderKeys[idx])
    /\ LET r == timed_symlink(fs, log, filename, FolderKeys[idx], cfg, dry_run)
       IN  /\ fs' = r.fs
           /\ log' = r.log
           /\ pc' = IF r.raised THEN "crashed" ELSE "rotate"
           /\ exitcode' = IF r.raised THEN "1" ELSE exitcode
    /\ steps' = Append(steps, <<"timed_symlink", FolderKeys[idx]>>)
    /\ UNCHANGED <<now, config, idx, filename, cfg, remove_opt, dry_run,
                   fs0, runs, prev>>

\* an exception that nothing catches ends the process with exit code 1
CliRotate ==
    /\ pc = "rotate"
    /\ \E r \in rotate(fs, log, filename, FolderKeys[idx], cfg, remove_opt,
                       dry_run) :
           /\ fs' = r.fs
           /\ log' = r.log
           /\ pc' = IF r.raised THEN "crashed" ELSE "loop"
           /\ exitcode' = IF r.raised THEN "1" ELSE exitcode
           /\ idx' = IF r.raised THEN idx ELSE idx + 1
    /\ steps' = Append(steps, <<"rotate", FolderKeys[idx]>>)
    /\ UNCHANGED <<now, config, filename, cfg, remove_opt, dry_run, fs0, runs,
                   prev>>

CliReturn ==
    /\ pc = "loop"
    /\ idx > Len(FolderKeys)
    /\ pc' = "done"
    /\ exitcode' = "0"
    /\ UNCHANGED <<fs, now, config, idx, filename, cfg, remove_opt, dry_run,
                   log, steps, fs0, runs, prev>>

Next == CliStart \/ CliSkip \/ CliTimedSymlink \/ CliRotate \/ CliReturn

Spec == Init /\ [][Next]_vars

SpecGate == InitGate /\ [][Next]_vars

-----------------------------------------------------------------------------
(* Properties *)

Range(q) == {q[i] : i \in 1..Len(q)}

EndOfRun == pc \in {"done", "crashed", "exited"}

\* the symlinks of a frequency folder that match the pattern
MatchingLinks(f, ffolder, pattern) ==
    {x \in glob(f, <<ffolder>>, pattern) : islink(f, x)}

\* whole days between the newest of the links m of filesystem f and now
NewestAge(f, m) ==
    LET newest == CHOOSE x \in m : \A y \in m : f.links[y].birth <= f.links[x].birth
    IN  (now - f.links[newest].birth) \div TicksPerDay

\* a symlink below one of the folders resolves to filepath
HeldBy(f, filepath, folders) ==
    \E p \in LinkPaths :
        p[1] \in folders /\ islink(f, p) /\ realpath(f, p) = filepath

\* p is a symlink that this run created
Created(p) == islink(fs, p) /\ fs.links[p] # fs0.links[p]

\* the entries of frequency folder t are those the run started with
FolderUntouched(t) ==
    \A p \in LinkPaths : p[1] = t => fs.links[p] = fs0.links[p]

\* C1 (as claimed): after a run that is not a dry run and has completed, a
\* tier with retention N > 0 holds at most N symlinks that match the pattern.
C1_RetentionBound ==
    pc = "done" /\ ~dry_run =>
        \A t \in Folders :
            enabled(cfg, t) =>
                Cardinality(MatchingLinks(fs, t, cfg.pattern)) <= cfg[lower(t)]

\* C2: a step deletes a file only during the rotation of a tier and only
\* when no symlink of another tier resolves to that file.
C2_NoFalseDeletion ==
    [][\A n \in fs.files \ fs'.files :
           /\ pc = "rotate"
           /\ ~HeldBy(fs', <<n>>, Folders \ {FolderKeys[idx]})]_vars

\* C2, its case: with --remove and no dry run the rotation of tier t came to
\* evict the oldest link of t, which resolves to an existing file that a link
\* of another name in another tier resolves to, and that no entry of the same
\* name protects.
C2_Witness ==
    /\ pc = "crashed" /\ ~dry_run /\ remove_opt
    /\ steps # <<>> /\ steps[Len(steps)][1] = "rotate"
    /\ LET t == steps[Len(steps)][2]
           m == MatchingLinks(fs, t, cfg.pattern)
       IN  /\ Cardinality(m) > cfg[lower(t)]
           /\ \E x \in m :
               /\ \A y \in m : fs.links[x].birth <= fs.links[y].birth
               /\ lexists(fs, realpath(fs, x))
               /\ ~is_symlinked(fs, realpath(fs, x), Folders \ {t})
               /\ \E p \in LinkPaths :
                   /\ p[1] # t /\ p[2] # basename(realpath(fs, x))
                   /\ islink(fs, p) /\ realpath(fs, p) = realpath(fs, x)
               /\ basename(realpath(fs, x)) \in fs.files

\* C3: when the newest matching symlink of a tier was made K days before the
\* run and K is less than the minimum gap of the tier, the run creates no
\* symlink in the folder of the tier.
C3_TimeGateSafety ==
    pc # "idle" /\ cfg # None =>
        \A t \in Folders :
            LET m == MatchingLinks(fs0, t, cfg.pattern)
            IN  m # {} /\ NewestAge(fs0, m) < FREQUENCY_FOLDER_DAYS[t] =>
                    \A p \in LinkPaths : p[1] = t => ~Created(p)

\* C3, its case: a run that is no dry run has ended, and the gate of an
\* enabled tier whose newest link is at least a week old refused.
C3_Witness ==
    /\ pc = "done" /\ ~dry_run
    /\ \E t \in Folders :
        LET m == MatchingLinks(fs0, t, cfg.pattern)
        IN  /\ enabled(cfg, t)
            /\ m # {}
            /\ NewestAge(fs0, m) >= 7
            /\ NewestAge(fs0, m) < FREQUENCY_FOLDER_DAYS[t]
            /\ <<"INFO", "No symlink created", <<t>>>> \in log
            /\ ~lexists(fs, <<t, basename(filename)>>)

\* C4 (as claimed): the gate of a tier passes exactly when the folder holds
\* no matching symlink or the newest is at least the minimum gap of days old;
\* when it passes in a run that is no dry run and nothing is at the target
\* path, the symlink is created.
C4_GatePassesWhenDue ==
    \A t \in Folders :
        cfg # None /\ ~dry_run /\ <<"timed_symlink", t>> \in Range(steps) =>
            LET m == MatchingLinks(fs0, t, cfg.pattern)
                due == m = {} \/ NewestAge(fs0, m) >= FREQUENCY_FOLDER_DAYS[t]
                target == <<t, basename(filename)>>
            IN  /\ due /\ ~lexists(fs0, target) => Created(target)
                /\ ~due => FolderUntouched(t)

\* C5: during and after a dry run the filesystem (folders, symlinks, files)
\* is the one the run started with.
C5_DryRunPurity == dry_run /\ pc # "idle" => fs = fs0

\* C5, its case: a dry run with --remove has ended that announced a symlink,
\* an unlink and a removal.
C5_Witness ==
    /\ pc = "done" /\ dry_run /\ remove_opt
    /\ \E e \in log : e[2] = "Symlinking"
    /\ \E e \in log : e[2] = "Unlinking"
    /\ \E e \in log : e[2] = "Removing"

\* C6: a call of timed_symlink that finds an entry at
\* <tier folder>/<basename(FILE)> leaves the filesystem as it is.
C6_ConflictNonOverwrite ==
    [][pc = "loop" /\ steps' # steps
       /\ lexists(fs, <<FolderKeys[idx], basename(filename)>>)
       => fs' = fs]_vars

\* C6, its case: the gate passed in a run that is no dry run and the target
\* path held a broken symlink, which is still there.
C6_Witness ==
    /\ ~dry_run
    /\ \E p \in LinkPaths :
        /\ <<"ERROR", "already exists", p>> \in log
        /\ islink(fs, p)
        /\ ~exists(fs, p)

\* C7 (as claimed): when the creation in a tier is refused because the target
\* path is occupied, the rotation of that tier and both steps of every later
\* enabled tier take place in the same run.
C7_ConflictNonFatal ==
    EndOfRun /\ cfg # None =>
        \A i \in 1..Len(FolderKeys) :
            <<"ERROR", "already exists",
              <<FolderKeys[i], basename(filename)>>>> \in log =>
                /\ <<"rotate", FolderKeys[i]>> \in Range(steps)
                /\ \A j \in (i + 1)..Len(FolderKeys) :
                       enabled(cfg, FolderKeys[j]) =>
                           /\ <<"timed_symlink", FolderKeys[j]>> \in Range(steps)
                           /\ <<"rotate", FolderKeys[j]>> \in Range(steps)

\* C8: a tier with retention count 0 is not gated, not created in and not
\* rotated, and its folder keeps the entries it had when the run started.
C8_DisabledTierSkipped ==
    pc # "idle" /\ cfg # None =>
        \A t \in Folders :
            cfg[lower(t)] = 0 =>
                /\ FolderUntouched(t)
                /\ \A e \in Range(steps) : e[2] # t
                /\ \A e \in log : e[3][1] # t

\* C8, its case: a run that is no dry run created a symlink and has ended,
\* and a disabled tier holds two matching symlinks.
C8_Witness ==
    /\ pc = "done" /\ ~dry_run
    /\ \E p \in LinkPaths : Created(p)
    /\ \E t \in Folders :
        /\ cfg[lower(t)] = 0
        /\ Cardinality(MatchingLinks(fs, t, cfg.pattern)) >= 2

\* C9 (as claimed): every symlink a run creates is at
\* <dirname(FILE)>/<lowercase name of an enabled tier>/<basename(FILE)> and
\* its link target is FILE.
C9_FolderLayout ==
    \A p \in LinkPaths :
        Created(p) =>
            \E t \in Folders :
                /\ enabled(cfg, t)
                /\ p = join(join(dirname(filename), lower(t)), basename(filename))
                /\ fs.links[p].target = filename

\* C9 (amended): every symlink a run creates is at
\* <dirname(FILE)>/<key of an enabled tier in FREQUENCY_FOLDER_DAYS, in upper
\* case>/<basename(FILE)>, its link target is FILE and its birth time is the
\* time of the run.
C9_FolderLayoutKeys ==
    \A p \in LinkPaths :
        Created(p) =>
            \E t \in Folders :
                /\ enabled(cfg, t)
                /\ p = join(join(dirname(filename), t), basename(filename))
                /\ fs.links[p].target = filename
                /\ fs.links[p].birth = now

\* C9, its case: a run has ended that created a symlink in a folder that did
\* not exist before.
C9_Witness ==
    /\ pc = "done"
    /\ \E p \in LinkPaths : Created(p) /\ p[1] \notin fs0.dirs

\* C10 (as claimed): a run without a matching pattern ends with exit code 1
\* and has processed no tier; a run with a matching pattern ends with exit
\* code 0.
C10_ExitCodes ==
    EndOfRun =>
        /\ cfg = None => exitcode = "1" /\ steps = <<>> /\ fs = fs0
        /\ cfg # None => exitcode = "0"

\* the tier of the rotate call that was the last step of the run so far
JustRotated(t) ==
    steps # <<>> /\ steps[Len(steps)] = <<"rotate", t>>

\* the matching symlinks that the folder of tier t held when its rotation
\* began: those the run started with and the one the run created there
Before(t) ==
    MatchingLinks(fs0, t, cfg.pattern)
        \cup {p \in LinkPaths : p[1] = t /\ <<"INFO", "Symlinking", p>> \in log
                                /\ ~dry_run}

\* the birth time of such a symlink
BirthBefore(p) ==
    IF islink(fs0, p) THEN fs0.links[p].birth ELSE now

\* C11 (as claimed): when rotate scans the folder of its tier, every result
\* of get_symlinks_dates lists the symlinks of the folder that match the
\* pattern and nothing else, each exactly once and with its birth time, in
\* ascending order of birth time; symlinks of equal birth time are all listed.
C11_ScannerComplete ==
    pc = "rotate" =>
        LET m == MatchingLinks(fs, FolderKeys[idx], cfg.pattern)
        IN  \A r \in get_symlinks_dates(fs, join(dirname(filename),
                                                 FolderKeys[idx]), cfg.pattern) :
                /\ {r[i][2] : i \in 1..Len(r)} = m
                /\ Len(r) = Cardinality(m)
                /\ \A i \in 1..Len(r) : r[i][1] = fs.links[r[i][2]].birth
                /\ \A i, j \in 1..Len(r) : i < j => r[i][1] <= r[j][1]

\* C12 (as claimed): after the rotation of a tier with retention N in a run
\* that is not a dry run, of the M matching symlinks the folder held when the
\* rotation began min(M, N) are left, none of them older than one that is
\* gone, and the symlink the run created in the folder is among them.
C12_EvictsExcess ==
    \A t \in Folders :
        JustRotated(t) /\ ~dry_run =>
            LET before == Before(t)
                after == MatchingLinks(fs, t, cfg.pattern)
                N == cfg[lower(t)]
                M == Cardinality(before)
            IN  /\ after \subseteq before
                /\ Cardinality(after) = IF M < N THEN M ELSE N
                /\ \A k \in after, d \in before \ after :
                       BirthBefore(k) >= BirthBefore(d)
                /\ \A p \in before : ~islink(fs0, p) => p \in after

\* the symlinks of tier t that its rotation has to evict whatever the order
\* among equal birth times: those with at least N newer ones
Excess(t) ==
    {x \in Before(t) :
        Cardinality({y \in Before(t) : BirthBefore(y) > BirthBefore(x)})
            >= cfg[lower(t)]}

\* the file such a symlink resolved to when the rotation began
TargetBefore(p) ==
    IF islink(fs0, p) THEN realpath(fs0, p) ELSE filename

\* C13 (as claimed): after the rotation of tier t with --remove in a run that
\* is not a dry run, a file that a symlink to evict resolved to and that no
\* symlink of another tier resolves to is deleted, whatever entries of the
\* same name the other tier folders hold.
C13_UnreferencedDeleted ==
    \A t \in Folders :
        JustRotated(t) /\ ~dry_run /\ remove_opt =>
            \A x \in Excess(t) :
                LET F == TargetBefore(x)
                IN  Len(F) = 1 /\ F[1] \in fs0.files
                    /\ ~HeldBy(fs, F, Folders \ {t})
                        => F[1] \notin fs.files

\* C14: without --remove no step deletes a file, neither one that symlinks
\* resolve to nor a regular file in a tier folder, and all a rotation step
\* changes in the tier folders is that symlinks are gone.
C14_NoRemoveNoDelete ==
    [][~remove_opt =>
           /\ fs'.files = fs.files
           /\ \A p \in LinkPaths :
                  /\ entry(fs, p).kind = "file" => fs'.links[p] = fs.links[p]
                  /\ pc = "rotate" /\ fs'.links[p] # fs.links[p]
                         => islink(fs, p) /\ fs'.links[p] = NoEntry]_vars

\* C14, its case: without --remove and without --dry-run the rotation of a
\* tier came to evict a symlink whose file no other tier links to, and the
\* file is in place.
C14_Witness ==
    \E t \in Folders :
        /\ JustRotated(t) /\ ~remove_opt /\ ~dry_run
        /\ \E x \in Excess(t) :
               LET F == TargetBefore(x)
               IN  Len(F) = 1 /\ F[1] \in fs.files
                   /\ ~HeldBy(fs, F, Folders \ {t})

\* the tiers with a retention count other than 0, in the order of the loop
EnabledKeys == SelectSeq(FolderKeys, LAMBDA t : cfg[lower(t)] # 0)

\* for each of them timed_symlink, then rotate
StepsInOrder ==
    [i \in 1..(2 * Len(EnabledKeys)) |->
        IF i % 2 = 1 THEN <<"timed_symlink", EnabledKeys[(i + 1) \div 2]>>
        ELSE <<"rotate", EnabledKeys[i \div 2]>>]

\* C15 (as claimed): when a run that is not a dry run and found its policy
\* has ended, it has called timed_symlink and then rotate for every tier with
\* a retention count other than 0, tier after tier in the order DAILY,
\* WEEKLY, MONTHLY, YEARLY, whether or not a tier had symlinks to evict.
C15_OrderAndCompletion ==
    EndOfRun /\ cfg # None /\ ~dry_run => steps = StepsInOrder

\* this run is for the file of the run before it, which was completed, and
\* no time has passed since
Rerun ==
    /\ pc # "idle" /\ ~dry_run
    /\ prev.pc = "done" /\ prev.filename = filename /\ prev.now = now

\* C16: a run that is not a dry run and follows at once on a completed run
\* for the same file and policy calls symlink for no target, leaves every
\* entry and every file as it found them and does not end by an exception.
C16_RerunNoOp ==
    Rerun =>
        /\ fs = fs0
        /\ \A p \in LinkPaths : <<"INFO", "Symlinking", p>> \notin log
        /\ pc # "crashed"

\* C16, its case: the second run is completed; the first had created a
\* symlink, which the gate of the second run found.
C16_Witness ==
    /\ Rerun /\ pc = "done" /\ prev.changed
    /\ \E p \in LinkPaths :
           /\ fs.links[p] = Link(filename, now)
           /\ <<"INFO", "No symlink created", dirname(p)>> \in log

\* p is in the folder of the tier under rotation and matches the pattern
InRotatedTier(p) ==
    /\ dirname(p) = join(dirname(filename), FolderKeys[idx])
    /\ fnmatch(chars(basename(p)), cfg.pattern)

\* C17: a rotation step takes away, and in a dry run announces to unlink,
\* only symlinks in the folder of its own tier that match the pattern; the
\* symlinks of the other tier folders and those that do not match stay.
C17_StaysInTier ==
    [][pc = "rotate" =>
           \A p \in LinkPaths :
               /\ islink(fs, p) /\ fs'.links[p] # fs.links[p]
                      => InRotatedTier(p)
               /\ <<"INFO", "Unlinking", p>> \in log' \ log
                      => InRotatedTier(p)]_vars

\* C17, its case: the rotation of a tier had symlinks to evict while the
\* folder of another tier held an older symlink that matches the pattern.
C17_Witness ==
    \E t \in Folders :
        /\ JustRotated(t) /\ Excess(t) # {}
        /\ \E p \in LinkPaths, x \in Excess(t) :
               /\ p[1] # t /\ islink(fs, p) /\ islink(fs0, p)
               /\ fnmatch(chars(basename(p)), cfg.pattern)
               /\ fs0.links[p].birth < BirthBefore(x)

\* every symlink in a tier folder of filesystem f is as the tool makes it for
\* a regular input file, <tier>/<name> -> <name>, and that file exists
ToolMade(f) ==
    \A p \in LinkPaths :
        islink(f, p) => f.links[p].target = <<p[2]>> /\ p[2] \in f.files

\* C18: where the runs are not dry runs and have --remove, a step that begins
\* with every tier symlink made by the tool and resolving to an existing file
\* ends so, and deletes no file that is the input file of the run.
C18_NoDangling ==
    [][ToolMade(fs) /\ ~dry_run /\ remove_opt =>
           /\ ToolMade(fs')
           /\ \A n \in fs.files \ fs'.files : <<n>> # filename]_vars

\* C18, its case: such a run began with every symlink made by the tool, and
\* the rotation of a tier came to evict a symlink whose file no other tier
\* links to; the symlinks that are left resolve.
C18_Witness ==
    \E t \in Folders :
        /\ JustRotated(t) /\ ~dry_run /\ remove_opt
        /\ ToolMade(fs0) /\ ToolMade(fs)
        /\ \E x \in Excess(t) :
               /\ islink(fs, x)
               /\ ~HeldBy(fs, TargetBefore(x), Folders \ {t})

\* the results a run that is not a dry run can end with when it is started
\* for the same file and policy in the state this run was started in
RealRun == cronicle_loop(Result(fs0, {}, FALSE), 1, filename, cfg, remove_opt,
                         FALSE)

\* The actions of a run and the loop as a function end with the same results.
LoopAgrees ==
    pc \in {"done", "crashed"} =>
        Result(fs, log, pc = "crashed")
            \in cronicle_loop(Result(fs0, {}, FALSE), 1, filename, cfg,
                              remove_opt, dry_run)

\* C19 (as claimed): when a dry run has ended, the symlinks it has reported
\* to unlink and the files it has reported to remove are the symlinks and
\* the files that a run without --dry-run, started in the same state, takes
\* away, for some order in which the directory is listed.
C19_DryRunFidelity ==
    pc = "done" /\ dry_run =>
        \E r \in RealRun :
            /\ {p \in LinkPaths : <<"INFO", "Unlinking", p>> \in log}
                   = {p \in LinkPaths : islink(fs0, p) /\ ~islink(r.fs, p)}
            /\ {n \in Names : <<"INFO", "Removing", <<n>>>> \in log}
                   = fs0.files \ r.fs.files
            /\ {p \in LinkPaths : <<"INFO", "Removing", p>> \in log}
                   = {p \in LinkPaths : ~islink(fs0, p) /\ lexists(fs0, p)
                                        /\ ~lexists(r.fs, p)}

====
